---- MODULE Spec2Model ----
(***************************************************************************)
(* Banking feature store: the two declared permission configurations      *)
(* (feature_repo/permissions.py and server_feature_repo/permissions.py)    *)
(* and the permission-evaluation model they are handed to.                 *)
(*                                                                         *)
(* The Permission lists are translated from the source.  The decision      *)
(* engine, the policy variants and the framework constants (ALL_ACTIONS,   *)
(* ALL_RESOURCE_TYPES) belong to the external framework and are taken from *)
(* sections 3 and 4 of the specification.                                  *)
(***************************************************************************)
EXTENDS Integers, Sequences, FiniteSets, TLC

\* the permission configuration and one authorization check
VARIABLES config, permissions, principal, request, decision

\* run_rbac_tests: position, the results dict, the store operations called so
\* far, and the locals and return value of
\* test_materialize_feature_views_one_by_one
VARIABLES pc, results, calls, all_feature_views, feature_views_to_materialize,
          idx, materialized_views, failed_views, materialization_result

\* authorization checks in flight at the same time, and the decisions
\* already returned
VARIABLES inflight, answered

authVars == <<config, permissions, principal, request, decision>>

runVars == <<pc, results, calls, all_feature_views, feature_views_to_materialize,
             idx, materialized_views, failed_views, materialization_result>>

concVars == <<inflight, answered>>

vars == <<authVars, runVars, concVars>>

(***************************************************************************)
(* Bounds                                                                  *)
(***************************************************************************)
\* largest number of groups one principal belongs to
MaxGroups == 2
\* largest policy store built by Register (specification SpecStore)
MaxStore == 2
\* largest number of feature views store.list_feature_views returns
MaxViews == 2
\* number of authorization checks that can be in flight at the same time
MaxInflight == 2

(***************************************************************************)
(* Framework vocabulary (specification, section 3)                         *)
(***************************************************************************)
ALL_ACTIONS ==
    {"CREATE", "UPDATE", "DELETE", "DESCRIBE",
     "READ_OFFLINE", "READ_ONLINE", "WRITE_OFFLINE", "WRITE_ONLINE"}

READ == {"READ_OFFLINE", "READ_ONLINE"}

ALL_RESOURCE_TYPES ==
    {"Project", "FeatureView", "OnDemandFeatureView", "Entity",
     "FeatureService", "DataSource", "SavedDataset"}

(***************************************************************************)
(* Group, namespace and resource-type declarations of the two files        *)
(***************************************************************************)
admin_groups == {"banking-admin"}
data_engineers_groups == {"data-engineers"}
data_scientists_groups == {"data-scientists"}
read_only_analysts_groups == {"read-only-analysts"}
restricted_user_groups == {"restricted-user"}

namespace == {"feast"}

resource_types ==
    {"Project", "FeatureView", "OnDemandFeatureView", "Entity",
     "FeatureService", "DataSource", "SavedDataset"}

\* DataSource left in the list
data_engineers_resource_types_with_datasource ==
    {"Project", "FeatureView", "OnDemandFeatureView", "Entity",
     "FeatureService", "DataSource", "SavedDataset"}

data_engineers_resource_types ==
    {"Project", "FeatureView", "OnDemandFeatureView", "Entity",
     "FeatureService", "SavedDataset"}

(***************************************************************************)
(* Resource names are character sequences; the name pattern of the source  *)
(* is the regular expression ^(?!.*transaction).*                          *)
(***************************************************************************)
transaction == <<"t","r","a","n","s","a","c","t","i","o","n">>

\* ^(?!transaction).* : the lookahead looks only at the start of the name
NoTransactionPattern_at_start ==
    [negative_lookahead |-> transaction, any_prefix |-> FALSE]

\* the pattern ^(?!.*transaction).* : a negative lookahead for the needle
\* after any prefix (any_prefix is the .* inside the lookahead), then .*
NoTransactionPattern ==
    [negative_lookahead |-> transaction, any_prefix |-> TRUE]

\* no name_patterns argument: the Permission applies to every name
NoPatterns == {}

(***************************************************************************)
(* Policies                                                                *)
(***************************************************************************)
GroupBasedPolicy(groups) ==
    [variant |-> "GroupBasedPolicy", groups |-> groups, namespaces |-> {}]

NamespaceBasedPolicy(namespaces) ==
    [variant |-> "NamespaceBasedPolicy", groups |-> {}, namespaces |-> namespaces]

CombinedGroupNamespacePolicy(groups, namespaces) ==
    [variant |-> "CombinedGroupNamespacePolicy",
     groups |-> groups, namespaces |-> namespaces]

Permission(name, types, name_patterns, policy, actions) ==
    [name |-> name, types |-> types, name_patterns |-> name_patterns,
     policy |-> policy, actions |-> actions]

(***************************************************************************)
(* feature_repo/permissions.py                                             *)
(***************************************************************************)
\* the namespace alone grants
repo_admin_perm_namespace_only ==
    Permission("admin_permissions", ALL_RESOURCE_TYPES, NoPatterns,
               NamespaceBasedPolicy(namespace), ALL_ACTIONS)

repo_admin_perm ==
    Permission("admin_permissions", ALL_RESOURCE_TYPES, NoPatterns,
               CombinedGroupNamespacePolicy(admin_groups, namespace),
               ALL_ACTIONS)

repo_data_engineers_perm ==
    Permission("data_engineers_permissions", resource_types, NoPatterns,
               CombinedGroupNamespacePolicy(data_engineers_groups, namespace),
               {"CREATE", "UPDATE", "DELETE", "DESCRIBE",
                "READ_OFFLINE", "READ_ONLINE", "WRITE_OFFLINE", "WRITE_ONLINE"})

repo_data_scientists_perm ==
    Permission("data_scientists_permissions",
               {"FeatureView", "FeatureService", "Entity"}, NoPatterns,
               CombinedGroupNamespacePolicy(data_scientists_groups, namespace),
               {"DESCRIBE", "READ_OFFLINE", "READ_ONLINE"})

\* the READ alias (offline and online) instead of READ_OFFLINE
repo_read_only_analysts_perm_read ==
    Permission("read_only_analysts_permissions", ALL_RESOURCE_TYPES, NoPatterns,
               CombinedGroupNamespacePolicy(read_only_analysts_groups, namespace),
               {"DESCRIBE"} \cup READ)

repo_read_only_analysts_perm ==
    Permission("read_only_analysts_permissions", ALL_RESOURCE_TYPES, NoPatterns,
               CombinedGroupNamespacePolicy(read_only_analysts_groups, namespace),
               {"DESCRIBE", "READ_OFFLINE"})

\* the restricted user may also read
repo_restricted_user_perm_read ==
    Permission("restricted_user_permissions", {"FeatureView"}, NoPatterns,
               CombinedGroupNamespacePolicy(restricted_user_groups, namespace),
               {"DESCRIBE", "READ_OFFLINE"})

repo_restricted_user_perm ==
    Permission("restricted_user_permissions", {"FeatureView"}, NoPatterns,
               CombinedGroupNamespacePolicy(restricted_user_groups, namespace),
               {"DESCRIBE"})

repo_permissions ==
    <<repo_admin_perm, repo_data_engineers_perm, repo_data_scientists_perm,
      repo_read_only_analysts_perm, repo_restricted_user_perm>>

(***************************************************************************)
(* server_feature_repo/permissions.py                                      *)
(***************************************************************************)
\* the data engineers' type list passed to the admin Permission
server_admin_perm_engineer_types ==
    Permission("admin_permissions", data_engineers_resource_types, NoPatterns,
               GroupBasedPolicy(admin_groups), ALL_ACTIONS)

server_admin_perm ==
    Permission("admin_permissions", ALL_RESOURCE_TYPES, NoPatterns,
               GroupBasedPolicy(admin_groups), ALL_ACTIONS)

server_data_engineers_perm ==
    Permission("data_engineers_permissions", data_engineers_resource_types,
               NoPatterns, GroupBasedPolicy(data_engineers_groups),
               {"CREATE", "UPDATE", "DELETE", "DESCRIBE",
                "READ_OFFLINE", "READ_ONLINE", "WRITE_OFFLINE", "WRITE_ONLINE"})

\* name_patterns left out
server_data_scientists_perm_no_patterns ==
    Permission("data_scientists_permissions",
               {"FeatureView", "FeatureService", "Entity"}, NoPatterns,
               GroupBasedPolicy(data_scientists_groups),
               {"DESCRIBE", "READ_OFFLINE", "READ_ONLINE"})

server_data_scientists_perm ==
    Permission("data_scientists_permissions",
               {"FeatureView", "FeatureService", "Entity"},
               {NoTransactionPattern},
               GroupBasedPolicy(data_scientists_groups),
               {"DESCRIBE", "READ_OFFLINE", "READ_ONLINE"})

server_read_only_analysts_perm ==
    Permission("read_only_analysts_permissions",
               {"FeatureView", "Entity", "FeatureService"},
               {NoTransactionPattern},
               GroupBasedPolicy(read_only_analysts_groups),
               {"DESCRIBE", "READ_OFFLINE"})

\* the admin Permission's name pasted into the restricted user's
server_restricted_user_perm_admin_name ==
    Permission("admin_permissions", {"FeatureView"}, NoPatterns,
               GroupBasedPolicy(restricted_user_groups), {"DESCRIBE"})

server_restricted_user_perm ==
    Permission("restricted_user_permissions", {"FeatureView"}, NoPatterns,
               GroupBasedPolicy(restricted_user_groups), {"DESCRIBE"})

server_permissions ==
    <<server_admin_perm, server_data_engineers_perm, server_data_scientists_perm,
      server_read_only_analysts_perm, server_restricted_user_perm>>

Configs == {"feature_repo", "server_feature_repo"}

PermissionsOf(c) ==
    IF c = "feature_repo" THEN repo_permissions ELSE server_permissions

(***************************************************************************)
(* Principals, resources and requests                                      *)
(***************************************************************************)
DeclaredGroups ==
    admin_groups \cup data_engineers_groups \cup data_scientists_groups
        \cup read_only_analysts_groups \cup restricted_user_groups

Groups == DeclaredGroups \cup {"unlisted-group"}

Namespaces == {"feast", "other"}

Principals ==
    {[groups |-> g, namespace |-> n] :
        g \in {s \in SUBSET Groups : Cardinality(s) <= MaxGroups},
        n \in Namespaces}

customer_profile ==
    <<"c","u","s","t","o","m","e","r","_","p","r","o","f","i","l","e">>
transaction_summary == transaction \o <<"_","s","u","m","m","a","r","y">>
customer_transaction_x ==
    <<"c","u","s","t","o","m","e","r","_">> \o transaction \o <<"_","x">>
\* near misses: a proper prefix of the needle, and the needle broken in two
transactio == SubSeq(transaction, 1, 10)
trans_action == <<"t","r","a","n","s","_","a","c","t","i","o","n">>

Names ==
    {customer_profile, transaction_summary, customer_transaction_x,
     transactio, trans_action, transaction}

Resources == {[kind |-> k, name |-> n] : k \in ALL_RESOURCE_TYPES, n \in Names}

NoRequest == [resource |-> [kind |-> "none", name |-> <<>>], action |-> "none"]

(***************************************************************************)
(* Decision engine (specification, sections 4.1 and 4.2)                   *)
(***************************************************************************)
\* "." of the regular expression: any character except a line break
Dot(c) == c # "\n"

\* needle occurs in s starting at position i
OccursAt(needle, s, i) ==
    /\ i + Len(needle) - 1 <= Len(s)
    /\ \A j \in 1..Len(needle) : s[i + j - 1] = needle[j]

\* the lookahead body (.*needle, or needle alone) matches at the start of s
LookaheadFinds(pattern, s) ==
    \E i \in 1..Len(s) :
        /\ pattern.any_prefix \/ i = 1
        /\ OccursAt(pattern.negative_lookahead, s, i)
        /\ \A j \in 1..(i - 1) : Dot(s[j])

\* full-string match of ^(?!...).* against s
PatternMatches(pattern, s) ==
    /\ ~LookaheadFinds(pattern, s)
    /\ \A j \in 1..Len(s) : Dot(s[j])

name_matches(p, resource) ==
    \/ p.name_patterns = {}
    \/ \E pattern \in p.name_patterns : PatternMatches(pattern, resource.name)

\* the combined policy grants on either side
PolicyMatches_combined_or(policy, P) ==
    CASE policy.variant = "GroupBasedPolicy" ->
            P.groups \cap policy.groups # {}
      [] policy.variant = "NamespaceBasedPolicy" ->
            P.namespace \in policy.namespaces
      [] policy.variant = "CombinedGroupNamespacePolicy" ->
            \/ P.groups \cap policy.groups # {}
            \/ P.namespace \in policy.namespaces

PolicyMatches(policy, P) ==
    CASE policy.variant = "GroupBasedPolicy" ->
            P.groups \cap policy.groups # {}
      [] policy.variant = "NamespaceBasedPolicy" ->
            P.namespace \in policy.namespaces
      [] policy.variant = "CombinedGroupNamespacePolicy" ->
            /\ P.groups \cap policy.groups # {}
            /\ P.namespace \in policy.namespaces

\* the Permissions that survive the resource-type, name and action filters
Applicable(perms, resource, action) ==
    SelectSeq(perms, LAMBDA p :
        /\ resource.kind \in p.types
        /\ name_matches(p, resource)
        /\ action \in p.actions)

\* only the first surviving Permission is consulted
AnyGrants_first_only(surviving, P) ==
    IF surviving = <<>> THEN FALSE
    ELSE PolicyMatches(Head(surviving).policy, P)

RECURSIVE AnyGrants(_, _)
AnyGrants(surviving, P) ==
    IF surviving = <<>> THEN FALSE
    ELSE IF PolicyMatches(Head(surviving).policy, P) THEN TRUE
    ELSE AnyGrants(Tail(surviving), P)

\* unanimous strategy: every surviving Permission has to grant
Decide_unanimous(perms, P, resource, action) ==
    LET surviving == Applicable(perms, resource, action)
    IN IF /\ surviving # <<>>
          /\ \A i \in DOMAIN surviving : PolicyMatches(surviving[i].policy, P)
       THEN "allow" ELSE "deny"

Decide(perms, P, resource, action) ==
    IF AnyGrants(Applicable(perms, resource, action), P)
    THEN "allow" ELSE "deny"

(***************************************************************************)
(* Python values of the test script                                        *)
(***************************************************************************)
\* results = {}
EmptyDict == [k \in {} |-> FALSE]

\* d[k] = v
Put(d, k, v) == [x \in DOMAIN d \cup {k} |-> IF x = k THEN v ELSE d[x]]

\* no dict returned yet by test_materialize_feature_views_one_by_one
NoResult ==
    [success |-> FALSE, materialized_views |-> <<>>,
     failed_views |-> <<>>, total_views |-> 0]

(***************************************************************************)
(* State machine: configuration load, then authorization checks            *)
(***************************************************************************)
\* no concurrent check in flight
FreeSlot ==
    [stage |-> "free", principal |-> [groups |-> {}, namespace |-> "none"],
     request |-> NoRequest, surviving |-> <<>>, decision |-> "none"]

ConcIdle ==
    /\ inflight = [i \in 1..MaxInflight |-> FreeSlot]
    /\ answered = EmptyDict

\* the test script is not running
RunIdle ==
    /\ pc = "idle"
    /\ results = EmptyDict
    /\ calls = <<>>
    /\ all_feature_views = <<>>
    /\ feature_views_to_materialize = <<>>
    /\ idx = 1
    /\ materialized_views = <<>>
    /\ failed_views = <<>>
    /\ materialization_result = NoResult

Init ==
    /\ config \in Configs
    /\ permissions = PermissionsOf(config)
    /\ principal \in Principals
    /\ request = NoRequest
    /\ decision = "none"
    /\ RunIdle
    /\ ConcIdle

\* the principal resolver hands over the caller of the next request
Authenticate(P) ==
    /\ decision = "none"
    /\ principal' = P
    /\ UNCHANGED <<config, permissions, request, decision>>
    /\ UNCHANGED <<runVars, concVars>>

\* one synchronous authorization check
Authorize(R, a) ==
    /\ decision = "none"
    /\ request' = [resource |-> R, action |-> a]
    /\ decision' = Decide(permissions, principal, R, a)
    /\ UNCHANGED <<config, permissions, principal>>
    /\ UNCHANGED <<runVars, concVars>>

\* the decision is returned to the caller
Complete ==
    /\ decision # "none"
    /\ request' = NoRequest
    /\ decision' = "none"
    /\ UNCHANGED <<config, permissions, principal>>
    /\ UNCHANGED <<runVars, concVars>>

Next ==
    \/ \E P \in Principals : Authenticate(P)
    \/ \E R \in Resources, a \in ALL_ACTIONS : Authorize(R, a)
    \/ Complete

Spec == Init /\ [][Next]_vars

TypeOK ==
    /\ config \in Configs
    /\ principal \in Principals
    /\ decision \in {"none", "allow", "deny"}
    /\ (decision = "none") <=> (request = NoRequest)

(***************************************************************************)
(* A policy store that grows: Permissions are registered one at a time     *)
(***************************************************************************)
InitStore ==
    /\ config \in Configs
    /\ permissions = <<>>
    /\ principal \in Principals
    /\ request = NoRequest
    /\ decision = "none"
    /\ RunIdle
    /\ ConcIdle

\* a Permission of the configuration is added to the store; names stay unique
Register(q) ==
    /\ Len(permissions) < MaxStore
    /\ \A i \in DOMAIN permissions : permissions[i].name # q.name
    /\ permissions' = Append(permissions, q)
    /\ UNCHANGED <<config, principal, request, decision>>
    /\ UNCHANGED <<runVars, concVars>>

\* one resource kind of each class the declared Permissions tell apart, with
\* a name the pattern keeps and a name it excludes
StoreResources ==
    {[kind |-> k, name |-> n] :
        k \in {"FeatureView", "Entity", "Project", "DataSource"},
        n \in {customer_profile, customer_transaction_x}}

NextStore ==
    \/ \E i \in DOMAIN PermissionsOf(config) : Register(PermissionsOf(config)[i])
    \/ \E P \in Principals : Authenticate(P)
    \/ \E R \in StoreResources, a \in ALL_ACTIONS : Authorize(R, a)
    \/ Complete

SpecStore == InitStore /\ [][NextStore]_vars

(***************************************************************************)
(* basic_tests_script.py: run_rbac_tests and the test functions it calls   *)
(***************************************************************************)
\* what a store operation does: it returns, raises FeastPermissionError, or
\* raises another Exception
Outcomes == {"ok", "denied", "error"}

\* store.delete_feature_view may also raise an Exception whose message says
\* "not found" or "does not exist"
DeleteOutcomes == Outcomes \cup {"not_found"}

Call(op, arg) == [op |-> op, arg |-> arg]

exclude_names == {"rbac_test_customer_simple_fv"}

\* f"rbac_test_customer_simple_fv_{username}", username defaulting to "unknown"
test_fv_name == "rbac_test_customer_simple_fv_unknown"

ViewNames == {"call_center_90d", "rbac_test_customer_simple_fv", test_fv_name}

\* the lists store.list_feature_views can return: registry names are unique
ViewLists ==
    {v \in UNION {[1..n -> ViewNames] : n \in 0..MaxViews} :
        \A i, j \in DOMAIN v : v[i] = v[j] => i = j}

\* [fv for fv in all_feature_views if fv.name not in exclude_names]
NotExcluded(views) == SelectSeq(views, LAMBDA n : n \notin exclude_names)

matVars == <<all_feature_views, feature_views_to_materialize, idx,
             materialized_views, failed_views, materialization_result>>

\* a test function of the shape  try: <one store operation>; return True
\* except FeastPermissionError: return False  except Exception: return False
\* together with the assignment of its result in run_rbac_tests
RunTest(here, next, key, op) ==
    /\ pc = here
    /\ \E o \in Outcomes :
          /\ results' = Put(results, key, o = "ok")
          /\ calls' = Append(calls, Call(op, ""))
    /\ pc' = next
    /\ UNCHANGED matVars
    /\ UNCHANGED <<authVars, concVars>>

test_list_feature_views ==
    RunTest("list_feature_views", "list_entities",
            "list_feature_views", "list_feature_views")

\* no  except Exception  clause: an error other than a denial propagates
\* out of run_rbac_tests
test_list_entities_uncaught ==
    /\ pc = "list_entities"
    /\ \E o \in Outcomes :
          IF o = "error"
          THEN pc' = "crashed" /\ UNCHANGED results
          ELSE /\ pc' = "list_feature_services"
               /\ results' = Put(results, "list_entities", o = "ok")
    /\ calls' = Append(calls, Call("list_entities", ""))
    /\ UNCHANGED matVars
    /\ UNCHANGED <<authVars, concVars>>

test_list_entities ==
    RunTest("list_entities", "list_feature_services",
            "list_entities", "list_entities")

test_list_feature_services ==
    RunTest("list_feature_services", "historical_90d",
            "list_feature_services", "list_feature_services")

test_historical_features_call_center_90d ==
    RunTest("historical_90d", "historical_predictive",
            "historical_90d", "get_historical_features")

test_historical_features_call_center_predictive ==
    RunTest("historical_predictive", "online_90d",
            "historical_predictive", "get_historical_features")

test_online_features_call_center_90d ==
    RunTest("online_90d", "online_predictive",
            "online_90d", "get_online_features")

test_online_features_call_center_predictive ==
    RunTest("online_predictive", "materialization",
            "online_predictive", "get_online_features")

\* the three materialization entries run_rbac_tests takes from the dict
RecordMaterialization(d, ret) ==
    Put(Put(Put(d, "materialization", ret.success),
            "materialized_count", Len(ret.materialized_views)),
        "failed_materialization_count", Len(ret.failed_views))

\* the dict of the early returns: nothing listed, or the listing raised
NothingMaterialized ==
    [success |-> FALSE, materialized_views |-> <<>>,
     failed_views |-> <<>>, total_views |-> 0]

\* test_materialize_feature_views_one_by_one up to the loop: list the
\* feature views, filter them, return early when none is left
test_materialize_list ==
    /\ pc = "materialization"
    /\ calls' = Append(calls, Call("list_feature_views", ""))
    /\ \E o \in Outcomes :
          IF o = "ok"
          THEN \E views \in ViewLists :
                  /\ all_feature_views' = views
                  /\ feature_views_to_materialize' = NotExcluded(views)
                  /\ IF NotExcluded(views) = <<>>
                     THEN /\ materialization_result' = NothingMaterialized
                          /\ results' = RecordMaterialization(results,
                                                             NothingMaterialized)
                          /\ pc' = "create_feature_view"
                     ELSE /\ pc' = "materialize_loop"
                          /\ UNCHANGED <<results, materialization_result>>
          ELSE /\ materialization_result' = NothingMaterialized
               /\ results' = RecordMaterialization(results, NothingMaterialized)
               /\ pc' = "create_feature_view"
               /\ UNCHANGED <<all_feature_views, feature_views_to_materialize>>
    /\ idx' = 1
    /\ materialized_views' = <<>>
    /\ failed_views' = <<>>
    /\ UNCHANGED <<authVars, concVars>>

\* the loop stops at the first feature view that fails
test_materialize_step_break ==
    /\ pc = "materialize_loop"
    /\ idx <= Len(feature_views_to_materialize)
    /\ LET fv_name == feature_views_to_materialize[idx]
       IN /\ calls' = Append(calls, Call("materialize_incremental", fv_name))
          /\ \E o \in Outcomes :
                IF o = "ok"
                THEN /\ materialized_views' = Append(materialized_views, fv_name)
                     /\ idx' = idx + 1
                     /\ UNCHANGED failed_views
                ELSE /\ failed_views' = Append(failed_views, <<fv_name, "error">>)
                     /\ idx' = Len(feature_views_to_materialize) + 1
                     /\ UNCHANGED materialized_views
    /\ UNCHANGED <<pc, results, all_feature_views, feature_views_to_materialize,
                   materialization_result>>
    /\ UNCHANGED <<authVars, concVars>>

\* one iteration of the loop: materialize_incremental of one feature view
test_materialize_step ==
    /\ pc = "materialize_loop"
    /\ idx <= Len(feature_views_to_materialize)
    /\ LET fv_name == feature_views_to_materialize[idx]
       IN /\ calls' = Append(calls, Call("materialize_incremental", fv_name))
          /\ \E o \in Outcomes :
                CASE o = "ok" ->
                        /\ materialized_views' = Append(materialized_views, fv_name)
                        /\ UNCHANGED failed_views
                  [] o = "denied" ->
                        /\ failed_views' =
                              Append(failed_views, <<fv_name, "RBAC blocked">>)
                        /\ UNCHANGED materialized_views
                  [] o = "error" ->
                        /\ failed_views' = Append(failed_views, <<fv_name, "error">>)
                        /\ UNCHANGED materialized_views
    /\ idx' = idx + 1
    /\ UNCHANGED <<pc, results, all_feature_views, feature_views_to_materialize,
                   materialization_result>>
    /\ UNCHANGED <<authVars, concVars>>

\* the loop is over: the dict is returned and run_rbac_tests records it
test_materialize_return ==
    /\ pc = "materialize_loop"
    /\ idx > Len(feature_views_to_materialize)
    /\ LET ret == [success |-> Len(materialized_views) > 0,
                   materialized_views |-> materialized_views,
                   failed_views |-> failed_views,
                   total_views |-> Len(feature_views_to_materialize)]
       IN /\ materialization_result' = ret
          /\ results' = RecordMaterialization(results, ret)
    /\ pc' = "create_feature_view"
    /\ UNCHANGED <<calls, all_feature_views, feature_views_to_materialize, idx,
                   materialized_views, failed_views>>
    /\ UNCHANGED <<authVars, concVars>>

\* run_rbac_tests when test_create_feature_view returned (False, None, None)
CreateFailed(d) ==
    Put(Put(Put(Put(Put(d, "create_feature_view", FALSE),
                    "apply_feature_view", FALSE),
                "verify_feature_view", FALSE),
            "retrieve_from_created_fv", FALSE),
        "delete_feature_view", FALSE)

\* run_rbac_tests when test_apply_feature_view returned False
ApplyFailed(d) ==
    Put(Put(Put(Put(d, "apply_feature_view", FALSE),
                "verify_feature_view", FALSE),
            "retrieve_from_created_fv", FALSE),
        "delete_feature_view", FALSE)

\* test_get_or_create_entity, first half: store.get_entity; any exception
\* (a denial included) leads to the attempt to create the entity
test_get_entity ==
    /\ pc = "create_feature_view"
    /\ calls' = Append(calls, Call("get_entity", "customer"))
    /\ \E o \in Outcomes :
          pc' = IF o = "ok" THEN "get_data_source" ELSE "create_entity"
    /\ UNCHANGED results
    /\ UNCHANGED matVars
    /\ UNCHANGED <<authVars, concVars>>

\* test_get_or_create_entity, second half: store.apply([entity])
test_create_entity ==
    /\ pc = "create_entity"
    /\ calls' = Append(calls, Call("apply", "entity"))
    /\ \E o \in Outcomes :
          IF o = "ok"
          THEN pc' = "get_data_source" /\ UNCHANGED results
          ELSE pc' = "summary" /\ results' = CreateFailed(results)
    /\ UNCHANGED matVars
    /\ UNCHANGED <<authVars, concVars>>

\* test_get_or_create_data_source and the rest of test_create_feature_view:
\* with the data source at hand the FeatureView is defined
test_get_or_create_data_source ==
    /\ pc = "get_data_source"
    /\ calls' = Append(calls, Call("get_data_source", "customer_data_source"))
    /\ \E o \in Outcomes :
          IF o = "ok"
          THEN /\ pc' = "apply_feature_view"
               /\ results' = Put(results, "create_feature_view", TRUE)
          ELSE /\ pc' = "summary"
               /\ results' = CreateFailed(results)
    /\ UNCHANGED matVars
    /\ UNCHANGED <<authVars, concVars>>

\* the result of the apply is recorded but not tested
test_apply_feature_view_unchecked ==
    /\ pc = "apply_feature_view"
    /\ calls' = Append(calls, Call("apply", test_fv_name))
    /\ \E o \in Outcomes :
          results' = Put(results, "apply_feature_view", o = "ok")
    /\ pc' = "verify_feature_view"
    /\ UNCHANGED matVars
    /\ UNCHANGED <<authVars, concVars>>

test_apply_feature_view ==
    /\ pc = "apply_feature_view"
    /\ calls' = Append(calls, Call("apply", test_fv_name))
    /\ \E o \in Outcomes :
          IF o = "ok"
          THEN /\ pc' = "verify_feature_view"
               /\ results' = Put(results, "apply_feature_view", TRUE)
          ELSE /\ pc' = "summary"
               /\ results' = ApplyFailed(results)
    /\ UNCHANGED matVars
    /\ UNCHANGED <<authVars, concVars>>

\* store.refresh_registry() and then store.get_feature_view(fv_name)
test_verify_feature_view ==
    /\ pc = "verify_feature_view"
    /\ \E o1, o2 \in Outcomes :
          /\ calls' = IF o1 = "ok"
                      THEN calls \o <<Call("refresh_registry", ""),
                                      Call("get_feature_view", test_fv_name)>>
                      ELSE Append(calls, Call("refresh_registry", ""))
          /\ results' = Put(results, "verify_feature_view", o1 = "ok" /\ o2 = "ok")
    /\ pc' = "retrieve_from_created_fv"
    /\ UNCHANGED matVars
    /\ UNCHANGED <<authVars, concVars>>

test_retrieve_from_created_feature_view ==
    /\ pc = "retrieve_from_created_fv"
    /\ calls' = Append(calls, Call("get_historical_features", test_fv_name))
    /\ \E o \in Outcomes :
          results' = Put(results, "retrieve_from_created_fv", o = "ok")
    /\ pc' = "delete_feature_view"
    /\ UNCHANGED matVars
    /\ UNCHANGED <<authVars, concVars>>

\* a "not found" error counts as deleted
test_delete_feature_view ==
    /\ pc = "delete_feature_view"
    /\ calls' = Append(calls, Call("delete_feature_view", test_fv_name))
    /\ \E o \in DeleteOutcomes :
          results' = Put(results, "delete_feature_view", o \in {"ok", "not_found"})
    /\ pc' = "summary"
    /\ UNCHANGED matVars
    /\ UNCHANGED <<authVars, concVars>>

\* TEST SUMMARY is printed, then TEST COMPLETE, and results is returned
print_summary ==
    /\ pc = "summary"
    /\ pc' = "done"
    /\ UNCHANGED <<results, calls>>
    /\ UNCHANGED matVars
    /\ UNCHANGED <<authVars, concVars>>

\* run_rbac_tests(fs) is called against the server configuration
InitRun ==
    /\ config = "server_feature_repo"
    /\ permissions = PermissionsOf(config)
    /\ principal = [groups |-> {}, namespace |-> "feast"]
    /\ request = NoRequest
    /\ decision = "none"
    /\ pc = "list_feature_views"
    /\ results = EmptyDict
    /\ calls = <<>>
    /\ all_feature_views = <<>>
    /\ feature_views_to_materialize = <<>>
    /\ idx = 1
    /\ materialized_views = <<>>
    /\ failed_views = <<>>
    /\ materialization_result = NoResult
    /\ ConcIdle

NextRun ==
    \/ test_list_feature_views
    \/ test_list_entities
    \/ test_list_feature_services
    \/ test_historical_features_call_center_90d
    \/ test_historical_features_call_center_predictive
    \/ test_online_features_call_center_90d
    \/ test_online_features_call_center_predictive
    \/ test_materialize_list
    \/ test_materialize_step
    \/ test_materialize_return
    \/ test_get_entity
    \/ test_create_entity
    \/ test_get_or_create_data_source
    \/ test_apply_feature_view
    \/ test_verify_feature_view
    \/ test_retrieve_from_created_feature_view
    \/ test_delete_feature_view
    \/ print_summary

SpecRun == InitRun /\ [][NextRun]_vars

\* the script is one sequential thread: it keeps running until it returns
SpecRunFair == SpecRun /\ WF_vars(NextRun)

(***************************************************************************)
(* Authorization checks issued concurrently: each request evaluates the    *)
(* shared Permission list with its own local state                         *)
(***************************************************************************)
ConcPrincipals ==
    {[groups |-> {"data-engineers"}, namespace |-> "feast"],
     [groups |-> {"restricted-user"}, namespace |-> "feast"]}

ConcRequests ==
    {[resource |-> [kind |-> "FeatureView", name |-> customer_profile],
      action |-> a] : a \in {"DESCRIBE", "WRITE_ONLINE"}}

Slots == 1..MaxInflight

\* a request arrives with its resolved principal
Submit(i, P, req) ==
    /\ inflight[i].stage = "free"
    /\ inflight' = [inflight EXCEPT ![i] =
                       [stage |-> "submitted", principal |-> P, request |-> req,
                        surviving |-> <<>>, decision |-> "none"]]
    /\ UNCHANGED answered
    /\ UNCHANGED <<authVars, runVars>>

\* the surviving Permissions land in the buffer of the first request
Collect_shared_buffer(i) ==
    /\ inflight[i].stage = "submitted"
    /\ inflight' = [inflight EXCEPT
                       ![i].stage = "collected",
                       ![1].surviving =
                           Applicable(permissions, inflight[i].request.resource,
                                      inflight[i].request.action)]
    /\ UNCHANGED answered
    /\ UNCHANGED <<authVars, runVars>>

\* first half of the evaluation: the Permissions that apply to the request
Collect(i) ==
    /\ inflight[i].stage = "submitted"
    /\ inflight' = [inflight EXCEPT
                       ![i].stage = "collected",
                       ![i].surviving =
                           Applicable(permissions, inflight[i].request.resource,
                                      inflight[i].request.action)]
    /\ UNCHANGED answered
    /\ UNCHANGED <<authVars, runVars>>

\* second half: allow iff the policy of a surviving Permission matches
Grant(i) ==
    /\ inflight[i].stage = "collected"
    /\ inflight' = [inflight EXCEPT
                       ![i].stage = "decided",
                       ![i].decision =
                           IF AnyGrants(inflight[i].surviving, inflight[i].principal)
                           THEN "allow" ELSE "deny"]
    /\ UNCHANGED answered
    /\ UNCHANGED <<authVars, runVars>>

CheckOf(slot) == [principal |-> slot.principal, request |-> slot.request]

\* the decision goes back to the caller; the first answer given to each
\* (principal, resource, action) is remembered
Return(i) ==
    /\ inflight[i].stage = "decided"
    /\ answered' = IF CheckOf(inflight[i]) \in DOMAIN answered
                   THEN answered
                   ELSE Put(answered, CheckOf(inflight[i]), inflight[i].decision)
    /\ inflight' = [inflight EXCEPT ![i] = FreeSlot]
    /\ UNCHANGED <<authVars, runVars>>

InitConcurrent ==
    /\ config \in Configs
    /\ permissions = PermissionsOf(config)
    /\ principal = [groups |-> {}, namespace |-> "feast"]
    /\ request = NoRequest
    /\ decision = "none"
    /\ RunIdle
    /\ ConcIdle

NextConcurrent ==
    \E i \in Slots :
        \/ \E P \in ConcPrincipals, req \in ConcRequests : Submit(i, P, req)
        \/ Collect(i)
        \/ Grant(i)
        \/ Return(i)

SpecConcurrent == InitConcurrent /\ [][NextConcurrent]_vars

(***************************************************************************)
(* Properties                                                              *)
(***************************************************************************)
Decided == decision # "none"

\* s contains needle as a contiguous substring
Contains(s, needle) ==
    \E i \in 1..(Len(s) - Len(needle) + 1) :
        SubSeq(s, i, i + Len(needle) - 1) = needle

FiveDeclaredGroups ==
    {"banking-admin", "data-engineers", "data-scientists",
     "read-only-analysts", "restricted-user"}

WriteActions == {"CREATE", "UPDATE", "DELETE", "WRITE_OFFLINE", "WRITE_ONLINE"}

\* C1: against either declared permissions list, a check is answered allow
\* exactly when some Permission of the list covers the resource's kind, its
\* name (when the Permission has name patterns) and the action, and has a
\* policy that matches the principal; in every other case it is answered deny.
C1DecisionIsUnion ==
    Decided =>
        LET R == request.resource
            a == request.action
            declared == PermissionsOf(config)
            granted ==
                \E i \in DOMAIN declared :
                    LET p == declared[i]
                    IN /\ R.kind \in p.types
                       /\ (p.name_patterns # {} =>
                             \E pat \in p.name_patterns : PatternMatches(pat, R.name))
                       /\ a \in p.actions
                       /\ PolicyMatches(p.policy, principal)
        IN /\ granted => decision = "allow"
           /\ ~granted => decision = "deny"

\* an allow that rests on a later Permission of the list while an earlier
\* surviving Permission's policy does not match
C1Witness ==
    /\ decision = "allow"
    /\ LET surviving == Applicable(permissions, request.resource, request.action)
       IN /\ Len(surviving) >= 2
          /\ ~PolicyMatches(surviving[1].policy, principal)

\* C2: fail-closed default: a request on a resource whose kind is in the
\* resource types of no Permission whose policy matches the principal is
\* denied, and a principal in none of the five declared groups is denied
\* every action on every resource.
C2FailClosed ==
    Decided =>
        /\ (~\E i \in DOMAIN permissions :
                /\ PolicyMatches(permissions[i].policy, principal)
                /\ request.resource.kind \in permissions[i].types)
              => decision = "deny"
        /\ (principal.groups \cap FiveDeclaredGroups = {}) => decision = "deny"

\* a data engineer asks for a DataSource, which none of the Permissions
\* matching that principal covers
C2Witness ==
    /\ config = "server_feature_repo"
    /\ principal.groups = {"data-engineers"}
    /\ request.resource.kind = "DataSource"
    /\ decision = "deny"

\* C3: union monotonicity: when a Permission is added to the policy store,
\* a request that was allowed under the old store is allowed under the new.
C3UnionMonotone ==
    [][(/\ Len(permissions') = Len(permissions) + 1
        /\ request # NoRequest
        /\ Decide(permissions, principal, request.resource, request.action)
              = "allow")
       => Decide(permissions', principal, request.resource, request.action)
              = "allow"]_vars

\* a store whose last Permission survives the filters for the request but
\* does not grant, added to a store that already allowed the request
C3Witness ==
    /\ Len(permissions) >= 2
    /\ request # NoRequest
    /\ LET n == Len(permissions)
           before == SubSeq(permissions, 1, n - 1)
       IN /\ Decide(before, principal, request.resource, request.action) = "allow"
          /\ Applicable(<<permissions[n]>>, request.resource, request.action) # <<>>
          /\ ~PolicyMatches(permissions[n].policy, principal)
          /\ Decide(permissions, principal, request.resource, request.action)
                = "allow"

\* the store with every combined policy replaced by its group side
GroupSide(perms) ==
    [i \in DOMAIN perms |->
        IF perms[i].policy.variant = "CombinedGroupNamespacePolicy"
        THEN [perms[i] EXCEPT !.policy = GroupBasedPolicy(@.groups)]
        ELSE perms[i]]

\* the store with every combined policy replaced by its namespace side
NamespaceSide(perms) ==
    [i \in DOMAIN perms |->
        IF perms[i].policy.variant = "CombinedGroupNamespacePolicy"
        THEN [perms[i] EXCEPT !.policy = NamespaceBasedPolicy(@.namespaces)]
        ELSE perms[i]]

\* C4: CombinedGroupNamespacePolicy(G, N) matches a principal only when
\* GroupBasedPolicy(G) and NamespaceBasedPolicy(N) both match it; every
\* request it allows is allowed with either constituent in its place; and it
\* is strictly more restrictive: a principal in group data-engineers outside
\* namespace feast matches the group side but not the combination, and a
\* principal in namespace feast in no group matches the namespace side only.
C4CombinedIsConjunction ==
    /\ \A i \in DOMAIN permissions :
          LET pol == permissions[i].policy
          IN (/\ pol.variant = "CombinedGroupNamespacePolicy"
              /\ PolicyMatches(pol, principal))
             => /\ PolicyMatches(GroupBasedPolicy(pol.groups), principal)
                /\ PolicyMatches(NamespaceBasedPolicy(pol.namespaces), principal)
    /\ decision = "allow" =>
          /\ Decide(GroupSide(permissions), principal,
                    request.resource, request.action) = "allow"
          /\ Decide(NamespaceSide(permissions), principal,
                    request.resource, request.action) = "allow"
    /\ LET outside == [groups |-> {"data-engineers"}, namespace |-> "other"]
           nogroup == [groups |-> {}, namespace |-> "feast"]
           combined == CombinedGroupNamespacePolicy(data_engineers_groups, namespace)
       IN /\ PolicyMatches(GroupBasedPolicy(data_engineers_groups), outside)
          /\ ~PolicyMatches(combined, outside)
          /\ PolicyMatches(NamespaceBasedPolicy(namespace), nogroup)
          /\ ~PolicyMatches(combined, nogroup)

\* a data engineer outside namespace feast is denied by the combined policy
\* a request that the group policy alone would allow
C4Witness ==
    /\ config = "feature_repo"
    /\ "data-engineers" \in principal.groups
    /\ principal.namespace = "other"
    /\ decision = "deny"
    /\ Decide(GroupSide(permissions), principal,
              request.resource, request.action) = "allow"

\* C5: a Permission declared with name_patterns ["^(?!.*transaction).*"]
\* applies to a resource exactly when the resource's name does not contain
\* "transaction" anywhere; transaction_summary is excluded and
\* customer_profile is included.
C5NamePatternExclusion ==
    /\ Decided =>
          \A i \in DOMAIN permissions :
              permissions[i].name_patterns # {} =>
                  (name_matches(permissions[i], request.resource)
                      <=> ~Contains(request.resource.name, transaction))
    /\ \A pat \in server_data_scientists_perm.name_patterns
                    \cup server_read_only_analysts_perm.name_patterns :
          /\ ~PatternMatches(pat, transaction_summary)
          /\ PatternMatches(pat, customer_profile)

\* a data scientist is refused a feature view with "transaction" in the
\* middle of its name
C5Witness ==
    /\ config = "server_feature_repo"
    /\ principal.groups = {"data-scientists"}
    /\ request.resource = [kind |-> "FeatureView", name |-> customer_transaction_x]
    /\ request.action = "DESCRIBE"
    /\ decision = "deny"

\* C6 as stated, for whichever configuration is loaded: a principal in group
\* data-engineers and namespace feast is allowed WRITE_ONLINE on a
\* FeatureView, and is denied every action on a DataSource when
\* data-engineers is its only group.
C6AsStated ==
    (/\ Decided
     /\ "data-engineers" \in principal.groups
     /\ principal.namespace = "feast")
    => /\ (/\ request.resource.kind = "FeatureView"
           /\ request.action = "WRITE_ONLINE") => decision = "allow"
       /\ (/\ principal.groups = {"data-engineers"}
           /\ request.resource.kind = "DataSource") => decision = "deny"

\* C6 (amended): in the server_feature_repo configuration, a principal in
\* group data-engineers and namespace feast is allowed WRITE_ONLINE on a
\* FeatureView, and is denied every action on a DataSource when
\* data-engineers is its only group.
C6DataEngineers ==
    config = "server_feature_repo" => C6AsStated

\* the data engineer's DELETE on a DataSource is refused
C6Witness ==
    /\ config = "server_feature_repo"
    /\ principal = [groups |-> {"data-engineers"}, namespace |-> "feast"]
    /\ request.resource.kind = "DataSource"
    /\ request.action = "DELETE"
    /\ decision = "deny"

C8DataScientists ==
    (/\ Decided
     /\ config = "server_feature_repo"
     /\ principal.groups = {"data-scientists"})
    => /\ request.resource.kind = "DataSource" => decision = "deny"
       /\ (/\ request.resource.kind = "FeatureView"
           /\ Contains(request.resource.name, transaction)) => decision = "deny"
       /\ request.action \in WriteActions => decision = "deny"

\* the data scientist's READ_ONLINE on the feature view transaction_summary
\* is refused
C8Witness ==
    /\ config = "server_feature_repo"
    /\ principal.groups = {"data-scientists"}
    /\ request.resource = [kind |-> "FeatureView", name |-> transaction_summary]
    /\ request.action = "READ_ONLINE"
    /\ decision = "deny"

\* C9: in both configurations a principal whose only group is
\* read-only-analysts is denied READ_ONLINE and every other action except
\* DESCRIBE and READ_OFFLINE on every resource; in the server_feature_repo
\* configuration it is also denied every action on a FeatureView whose name
\* contains "transaction".
C9ReadOnlyAnalysts ==
    (Decided /\ principal.groups = {"read-only-analysts"})
    => /\ request.action \notin {"DESCRIBE", "READ_OFFLINE"} => decision = "deny"
       /\ (/\ config = "server_feature_repo"
           /\ request.resource.kind = "FeatureView"
           /\ Contains(request.resource.name, transaction)) => decision = "deny"

\* the analyst's READ_ONLINE on a feature view is refused where the
\* Permission covers the resource and the policy matches
C9Witness ==
    /\ config = "feature_repo"
    /\ principal = [groups |-> {"read-only-analysts"}, namespace |-> "feast"]
    /\ request.resource = [kind |-> "FeatureView", name |-> customer_profile]
    /\ request.action = "READ_ONLINE"
    /\ decision = "deny"

C11AsStated ==
    (/\ Decided
     /\ config = "server_feature_repo"
     /\ principal.namespace # "feast")
    => decision = "deny"

\* C12: in each exported permissions list every Permission's name is unique
\* within the list and every Permission's actions set is non-empty.
C12StoreInvariant ==
    /\ \A i, j \in DOMAIN permissions :
          permissions[i].name = permissions[j].name => i = j
    /\ \A i \in DOMAIN permissions : permissions[i].actions # {}
    /\ permissions = PermissionsOf(config)

\* the server list, all five Permissions loaded, answering a request
C12Witness ==
    /\ config = "server_feature_repo"
    /\ Len(permissions) = 5
    /\ Cardinality({permissions[i].name : i \in DOMAIN permissions}) = 5
    /\ decision = "allow"

CheckKeys ==
    {"list_feature_views", "list_entities", "list_feature_services",
     "historical_90d", "historical_predictive", "online_90d",
     "online_predictive", "create_feature_view", "apply_feature_view",
     "verify_feature_view", "retrieve_from_created_fv", "delete_feature_view"}

MaterializationKeys ==
    {"materialization", "materialized_count", "failed_materialization_count"}

\* C13: whatever each store operation does (returns, is denied, fails in
\* another way), run_rbac_tests reaches TEST COMPLETE, and the results it
\* returns hold a boolean for each of the 12 checks and the three
\* materialization entries.
C13RunAlwaysCompletes ==
    /\ <>(pc = "done")
    /\ [](pc = "done" =>
            /\ DOMAIN results = CheckKeys \cup MaterializationKeys
            /\ \A k \in CheckKeys : results[k] \in BOOLEAN
            /\ results["materialization"] \in BOOLEAN
            /\ results["materialized_count"] \in Nat
            /\ results["failed_materialization_count"] \in Nat)

\* a run that completed although its first check, its last check and a
\* materialization failed
C13Witness ==
    /\ pc = "done"
    /\ ~results["list_feature_views"]
    /\ results["apply_feature_view"]
    /\ ~results["delete_feature_view"]
    /\ results["failed_materialization_count"] > 0

\* the feature view names passed to store.materialize_incremental, in order
Attempted ==
    LET m == SelectSeq(calls, LAMBDA c : c.op = "materialize_incremental")
    IN [i \in DOMAIN m |-> m[i].arg]

Occurrences(seq, x) == Cardinality({i \in DOMAIN seq : seq[i] = x})

\* C14: test_materialize_feature_views_one_by_one attempts every
\* non-excluded feature view exactly once in list order, whatever fails; on
\* return each attempted name is in exactly one of materialized_views and
\* failed_views, the two lengths add up to total_views, and success is True
\* exactly when some view materialized.
C14MaterializeOneByOne ==
    "materialization" \in DOMAIN results =>
        LET ret == materialization_result
            failed_names == [i \in DOMAIN ret.failed_views |-> ret.failed_views[i][1]]
        IN /\ Attempted =
                 SelectSeq(all_feature_views,
                           LAMBDA n : n # "rbac_test_customer_simple_fv")
           /\ \A i \in DOMAIN Attempted :
                 Occurrences(ret.materialized_views, Attempted[i])
                     + Occurrences(failed_names, Attempted[i]) = 1
           /\ Len(ret.materialized_views) + Len(ret.failed_views) = ret.total_views
           /\ ret.total_views = Len(Attempted)
           /\ ret.success <=> Len(ret.materialized_views) > 0
           /\ results["materialization"] = ret.success
           /\ results["materialized_count"] = Len(ret.materialized_views)
           /\ results["failed_materialization_count"] = Len(ret.failed_views)

\* the first view failed and the loop went on to materialize the second
C14Witness ==
    /\ "materialization" \in DOMAIN results
    /\ Len(Attempted) = 2
    /\ Len(materialization_result.failed_views) = 1
    /\ materialization_result.failed_views[1][1] = Attempted[1]
    /\ materialization_result.materialized_views = <<Attempted[2]>>
    /\ materialization_result.success

\* positions in calls of the store operations of the write phase
PositionsOf(c) == {i \in DOMAIN calls : calls[i] = c}

ApplyCalls == PositionsOf(Call("apply", test_fv_name))
VerifyCalls ==
    PositionsOf(Call("refresh_registry", ""))
        \cup PositionsOf(Call("get_feature_view", test_fv_name))
RetrieveCalls == PositionsOf(Call("get_historical_features", test_fv_name))
DeleteCalls == PositionsOf(Call("delete_feature_view", test_fv_name))

Recorded(k, v) == k \in DOMAIN results /\ results[k] = v

\* C16: in run_rbac_tests the test feature view is applied only after its
\* definition succeeded; verify, retrieve and delete are attempted only after
\* the apply succeeded; every skipped step is recorded as False; and when the
\* apply succeeded the delete is attempted exactly once, after verify and
\* retrieve, whatever their outcomes.
C16WritePhaseOrder ==
    /\ ApplyCalls # {} =>
          /\ Recorded("create_feature_view", TRUE)
          /\ \A i \in ApplyCalls :
                \E j \in PositionsOf(Call("get_data_source", "customer_data_source")) :
                    j < i
    /\ \A i \in VerifyCalls \cup RetrieveCalls \cup DeleteCalls :
          /\ Recorded("apply_feature_view", TRUE)
          /\ \E j \in ApplyCalls : j < i
    /\ pc = "done" =>
          /\ ApplyCalls = {} => Recorded("apply_feature_view", FALSE)
          /\ VerifyCalls = {} => Recorded("verify_feature_view", FALSE)
          /\ RetrieveCalls = {} => Recorded("retrieve_from_created_fv", FALSE)
          /\ DeleteCalls = {} => Recorded("delete_feature_view", FALSE)
          /\ Recorded("apply_feature_view", TRUE) =>
                /\ Cardinality(DeleteCalls) = 1
                /\ VerifyCalls # {}
                /\ Cardinality(RetrieveCalls) = 1
                /\ \A d \in DeleteCalls :
                      \A i \in VerifyCalls \cup RetrieveCalls : i < d

\* the apply succeeded, verify and retrieve both failed, and the delete was
\* still attempted
C16Witness ==
    /\ pc = "done"
    /\ Recorded("apply_feature_view", TRUE)
    /\ Recorded("verify_feature_view", FALSE)
    /\ Recorded("retrieve_from_created_fv", FALSE)
    /\ Cardinality(DeleteCalls) = 1

====
